---- MODULE Spec2Model ----
(***************************************************************************)
(* A model of the Synacor virtual machine of src/src/lib.rs, driven as     *)
(* src/src/main.rs drives it: Machine::new, Machine::load, Machine::run.   *)
(*                                                                         *)
(* The machine's fields are variables of the same names.  A panic of the   *)
(* Rust code (which aborts the process) is the status "Faulted" with the   *)
(* kind of the panic in `fault`; the state it leaves is the state at the   *)
(* point of the panic, so partial effects of the step remain visible.      *)
(***************************************************************************)
EXTENDS Integers, Sequences, FiniteSets, TLC

(* ---------------------------------------------------------------------- *)
(* Program constants                                                       *)
(* ---------------------------------------------------------------------- *)

\* memory: vec![0; 32768]
MemSize == 32768

\* registers: vec![0; 8]
NumRegs == 8

\* the width of u16 (type Arg = u16, ip: u16, memory: Vec<u16>)
U16 == 65536

\* value: arg <= 32767 is a literal
MaxLiteral == 32767

\* value: arg <= 32775 is a register
MaxRegArg == 32775

\* get_register / set_register: reg - 32768
RegBase == 32768

\* add, mult: % 32768
Modulus == 32768

\* Op::Not: & 32767
NotMask == 32767

(* ---------------------------------------------------------------------- *)
(* Bounds of the model                                                     *)
(* ---------------------------------------------------------------------- *)

\* the number of ticks run() is followed for
MaxSteps == 5

VARIABLES
    memory,     \* Machine.memory, as the function of its non-zero cells
    registers,  \* Machine.registers
    stack,      \* Machine.stack, top at the end
    ip,         \* Machine.ip
    status,     \* "New", "Running", "Halted" (tick returned false), "Faulted" (panic)
    fault,      \* the kind of the panic, "None" when there was none
    stdout,     \* what was printed to standard output, in order
    stdin,      \* the bytes of standard input not yet read
    op,         \* the Op the last tick decoded, with the address it was decoded at
    steps,      \* the number of ticks made
    image       \* the bytes load read from the file (its buf)

vars ==
    <<memory, registers, stack, ip, status, fault, stdout, stdin, op, steps, image>>

(* ---------------------------------------------------------------------- *)
(* u16 helpers                                                             *)
(* ---------------------------------------------------------------------- *)

RECURSIVE BitAnd(_, _)
\* x & y
BitAnd(x, y) ==
    IF x = 0 \/ y = 0 THEN 0
    ELSE (x % 2) * (y % 2) + 2 * BitAnd(x \div 2, y \div 2)

RECURSIVE BitOr(_, _)
\* x | y
BitOr(x, y) ==
    IF x = 0 THEN y
    ELSE IF y = 0 THEN x
    ELSE (IF x % 2 = 1 \/ y % 2 = 1 THEN 1 ELSE 0) + 2 * BitOr(x \div 2, y \div 2)

\* !x on a u16
BitNot16(x) == (U16 - 1) - x

(* ---------------------------------------------------------------------- *)
(* Memory: vec![0; 32768], kept as the function of its non-zero cells      *)
(* ---------------------------------------------------------------------- *)

\* self.memory[a] for an index inside the vector
Mem(a) == IF a \in DOMAIN memory THEN memory[a] ELSE 0

\* self.memory[a] = v, on the representation m
MemWrite(m, a, v) ==
    IF v = 0
    THEN [k \in (DOMAIN m) \ {a} |-> m[k]]
    ELSE [k \in (DOMAIN m) \cup {a} |-> IF k = a THEN v ELSE m[k]]

(* ---------------------------------------------------------------------- *)
(* Machine::load                                                           *)
(* ---------------------------------------------------------------------- *)

\* (buf[i] as u16) | ((buf[i + 1] as u16) << 8)
LeWord(lo, hi) == BitOr(lo, (hi * 256) % U16)

\* the two bytes of a word in a program image, low byte first
LeBytes(w) == <<w % 256, w \div 256>>

RECURSIVE ToBytes(_)
\* a program image given as words, as the bytes of its file
ToBytes(ws) == IF ws = <<>> THEN <<>> ELSE LeBytes(Head(ws)) \o ToBytes(Tail(ws))

RECURSIVE LoadLoop(_, _, _)
\* the while loop of load from index i on, with Len(buf) >= 1:
\*   while i < buf.len() - 1 { memory[i / 2] = ...; i += 2; }
\* (i is 0-based as in the source; buf is 1-based)
LoadLoop(m, buf, i) ==
    IF i < Len(buf) - 1
    THEN LoadLoop(MemWrite(m, i \div 2, LeWord(buf[i + 1], buf[i + 2])), buf, i + 2)
    ELSE m

\* load panics on an empty file (buf.len() - 1 underflows: an overflow panic in a
\* debug build, a wrap to usize::MAX and then buf[0] out of bounds in a release
\* build) and on a file whose loop reaches memory[32768]
LoadPanics(buf) == Len(buf) = 0 \/ Len(buf) >= 2 * MemSize + 2

\* the kinds of panic the two builds give for an underflowing subtraction that
\* is then used as an index
WrapPanics == {"Overflow", "Bounds"}

(* ---------------------------------------------------------------------- *)
(* The inputs: program images and standard input                           *)
(* ---------------------------------------------------------------------- *)

\* the argument words: literals (0, an address inside a short image, the largest
\* literal), the first and the last register, and the first invalid argument
ArgPool == {0, 2, 32767, 32768, 32775, 32776}

\* the second instructions of an image: each of the 22 opcodes and one number
\* that is no opcode (22), with every combination of arguments from ArgPool (the
\* arity is the one decode gives the opcode)
Instrs ==
    {<<n>> : n \in {0, 18, 21, 22}}
    \cup {<<n, a>> : n \in {2, 3, 6, 17, 19, 20}, a \in ArgPool}
    \cup {<<n, a, b>> : n \in {1, 7, 8, 14, 15, 16}, a \in ArgPool, b \in ArgPool}
    \cup {<<n, a, b, c>> : n \in {4, 5, 9, 10, 11, 12, 13},
                           a \in ArgPool, b \in ArgPool, c \in ArgPool}

\* the first instructions of an image, which prepare the state the second one
\* runs in: nothing; Noop; Rmem r0,1 (r0 = 32768, its own argument word);
\* Set r0,32767; Set r7,2; Push 32767; Push 2; Call 2; Wmem 32767,1;
\* Wmem 32767,21; In r0; In r7; Rmem r0,5 (r0 = the third word of the second
\* instruction, which may name another register)
Prefixes ==
    { <<>>, <<21>>, <<15, 32768, 1>>, <<1, 32768, 32767>>, <<1, 32775, 2>>,
      <<2, 32767>>, <<2, 2>>, <<17, 2>>, <<16, 32767, 1>>, <<16, 32767, 21>>,
      <<20, 32768>>, <<20, 32775>>, <<15, 32768, 5>> }

\* the programs the specification names:
\*   Out 'H'; Out 'i'; Out '\n'; Halt
\*   Set r0,4; Add r0,r0,32767; Out r0
\*   Push 1; Push 2; Pop r0; Pop r1
\*   Set r0,5; Not r1,r0; Not r2,r1
HiProgram == <<19, 72, 19, 105, 19, 10, 0>>
AddProgram == <<1, 32768, 4, 9, 32768, 32768, 32767, 19, 32768>>
LifoProgram == <<2, 1, 2, 2, 3, 32768, 3, 32769>>

\* Set r0,x; Not r1,r0; Not r2,r1
NotTwice(x) == <<1, 32768, x, 14, 32769, 32768, 14, 32770, 32769>>

\* the 15-bit values NotTwice is run with
NotValues == {0, 1, 5, 255, 256, 12345, 16384, 21845, 32766, 32767}

NamedPrograms ==
    {HiProgram, AddProgram, LifoProgram} \cup {NotTwice(x) : x \in NotValues}

\* program images as words
WordImages == {p \o i : p \in Prefixes, i \in Instrs} \cup NamedPrograms

\* program images as the bytes of the file: the word images, an empty file, a
\* file of one byte, and files with an odd trailing byte
Images ==
    {ToBytes(w) : w \in WordImages}
    \cup { <<>>, <<21>>, <<19, 0, 72, 0, 18>>, <<21, 0, 18>> }

\* the contents of standard input
Inputs == { <<>>, <<65, 255>> }

(* ---------------------------------------------------------------------- *)
(* Machine::new, main                                                      *)
(* ---------------------------------------------------------------------- *)

\* the value of op before any tick
NoOp == [tag |-> "None", n |-> 0, a |-> 0, b |-> 0, c |-> 0, p |-> 0]

\* Machine::new(): all state zeroed; standard input is whatever the process got
Init ==
    /\ memory = << >>
    /\ registers = [r \in 0 .. NumRegs - 1 |-> 0]
    /\ stack = << >>
    /\ ip = 0
    /\ status = "New"
    /\ fault = "None"
    /\ stdout = << >>
    /\ stdin \in Inputs
    /\ op = NoOp
    /\ steps = 0
    /\ image = << >>

\* main: machine.load(&path).unwrap_or(0) on a file that is read, then the two
\* println!s
Load ==
    /\ status = "New"
    /\ \E buf \in Images :
        /\ image' = buf
        /\ IF LoadPanics(buf)
           THEN /\ status' = "Faulted"
                /\ fault' \in (IF Len(buf) = 0 THEN WrapPanics ELSE {"Bounds"})
                /\ UNCHANGED <<memory, stdout>>
           ELSE /\ status' = "Running"
                /\ fault' = "None"
                /\ memory' = LoadLoop(memory, buf, 0)
                /\ stdout' = <<<<"read", Len(buf)>>, <<"banner", 0>>>>
    /\ UNCHANGED <<registers, stack, ip, stdin, op, steps>>

\* main: load returns Err (File::open or read_to_end failed), unwrap_or(0)
LoadErr ==
    /\ status = "New"
    /\ status' = "Running"
    /\ stdout' = <<<<"read", 0>>, <<"banner", 0>>>>
    /\ UNCHANGED <<memory, registers, stack, ip, fault, stdin, op, steps, image>>

(* ---------------------------------------------------------------------- *)
(* Machine::next, Machine::decode                                          *)
(* ---------------------------------------------------------------------- *)

RECURSIVE FetchN(_, _)
\* k calls of next() from the address q on: the words read, the ip left, and
\* whether every read was inside memory (self.memory[ip] panics from 32768 on,
\* leaving ip at the address of the failed read)
FetchN(q, k) ==
    IF k = 0 THEN [ok |-> TRUE, ws |-> << >>, ip |-> q]
    ELSE IF q >= MemSize THEN [ok |-> FALSE, ws |-> << >>, ip |-> q]
    ELSE LET r == FetchN((q + 1) % U16, k - 1)
         IN  [ok |-> r.ok, ws |-> <<Mem(q)>> \o r.ws, ip |-> r.ip]

\* Argc with an argument word read for a number that is no opcode
ArgcInvalidOne(n) ==
    CASE n \in {0, 18, 21} -> 0
      [] n \in {2, 3, 6, 17, 19, 20} -> 1
      [] n \in {1, 7, 8, 14, 15, 16} -> 2
      [] n \in {4, 5, 9, 10, 11, 12, 13} -> 3
      [] OTHER -> 1

\* the number of argument words decode reads for the opcode word n
Argc(n) ==
    CASE n \in {0, 18, 21} -> 0
      [] n \in {2, 3, 6, 17, 19, 20} -> 1
      [] n \in {1, 7, 8, 14, 15, 16} -> 2
      [] n \in {4, 5, 9, 10, 11, 12, 13} -> 3
      [] OTHER -> 0

\* the variant of Op decode builds for the opcode word n
Tag(n) ==
    CASE n = 0 -> "Halt"   [] n = 1 -> "Set"    [] n = 2 -> "Push"
      [] n = 3 -> "Pop"    [] n = 4 -> "Eq"     [] n = 5 -> "Gt"
      [] n = 6 -> "Jmp"    [] n = 7 -> "Jt"     [] n = 8 -> "Jf"
      [] n = 9 -> "Add"    [] n = 10 -> "Mult"  [] n = 11 -> "Mod"
      [] n = 12 -> "And"   [] n = 13 -> "Or"    [] n = 14 -> "Not"
      [] n = 15 -> "Rmem"  [] n = 16 -> "Wmem"  [] n = 17 -> "Call"
      [] n = 18 -> "Ret"   [] n = 19 -> "Out"   [] n = 20 -> "In"
      [] n = 21 -> "Noop"  [] OTHER -> "Invalid"

\* the k-th word of ws, 0 when there is none
Word(ws, k) == IF k <= Len(ws) THEN ws[k] ELSE 0

\* decode() at the current ip: the opcode word, then its arguments in the order
\* a, b, c.  ok is FALSE when a read was outside memory (a panic); ip is the ip
\* decode leaves.
decode ==
    LET f == FetchN(ip, 1) IN
    IF ~f.ok
    THEN [ok |-> FALSE, ip |-> f.ip,
          op |-> [tag |-> "None", n |-> 0, a |-> 0, b |-> 0, c |-> 0, p |-> ip]]
    ELSE LET n == f.ws[1]
             g == FetchN(f.ip, Argc(n))
         IN  [ok |-> g.ok, ip |-> g.ip,
              op |-> [tag |-> IF g.ok THEN Tag(n) ELSE "None", n |-> n,
                      a |-> Word(g.ws, 1), b |-> Word(g.ws, 2), c |-> Word(g.ws, 3),
                      p |-> ip]]

(* ---------------------------------------------------------------------- *)
(* Machine::value, get_register, set_register, add, mult                   *)
(* ---------------------------------------------------------------------- *)

\* self.registers[(reg - 32768) as usize], for a reg value() passes on
get_register(reg) == registers[reg - RegBase]

\* ValueFault with the register test one too wide (arg <= 32776): 32776 is
\* passed to get_register, whose index 8 is out of bounds
ValueFaultWide(arg) ==
    IF arg <= MaxLiteral THEN "None"
    ELSE IF arg <= MaxRegArg THEN "None"
    ELSE IF arg = MaxRegArg + 1 THEN "Bounds"
    ELSE "InvalidArgument"

\* the panic of value(arg), "None" when it returns
ValueFault(arg) ==
    IF arg <= MaxLiteral THEN "None"
    ELSE IF arg <= MaxRegArg THEN "None"
    ELSE "InvalidArgument"

\* the panic of value(x) followed by value(y): that of the first that panics
ValueFault2(x, y) ==
    IF ValueFault(x) /= "None" THEN ValueFault(x) ELSE ValueFault(y)

\* value(arg), when it does not panic
value(arg) == IF arg <= MaxLiteral THEN arg ELSE get_register(arg)

\* set_register(reg, _) does not panic: reg - 32768 is an index of registers
RegOk(reg) == reg >= RegBase /\ reg - RegBase < NumRegs

\* set_register with the base one too small (reg - 32767)
set_register_off(reg, val) ==
    [registers EXCEPT ![(reg - RegBase + 1) % NumRegs] = val]

\* the registers after set_register(reg, val), when it does not panic
set_register(reg, val) == [registers EXCEPT ![reg - RegBase] = val]

\* the kinds of panic of set_register(reg, _): below 32768 the subtraction
\* underflows (an overflow panic in a debug build, a wrapped index out of bounds
\* in a release build); above 32775 the index is out of bounds
RegPanics(reg) == IF reg < RegBase THEN WrapPanics ELSE {"Bounds"}

\* add reduced to the width of u16 instead of modulo 32768
add_u16(a, b) == (a + b) % U16

\* not15 without the mask
not15_unmasked(v) == BitNot16(v)

\* (!v) & 32767
not15(v) == BitAnd(BitNot16(v), NotMask)

\* ((a as u32) + (b as u32)) % 32768: the u32 sum of two u16 is exact
add(a, b) == (a + b) % Modulus

\* ((a as u32) * (b as u32)) % 32768: the u32 product of two u16 is exact
\* (65535 * 65535 < 2^32).  It is reduced here in two parts, a * (low byte of b)
\* and 256 * a * (high byte of b), since the integers of TLC end at 2^31 - 1.
mult(a, b) ==
    LET lo == a * (b % 256)
        hi == a * (b \div 256)
    IN  (lo + (hi % 128) * 256) % Modulus

(* ---------------------------------------------------------------------- *)
(* Machine::tick, one action per arm of its match; Machine::run repeats    *)
(* tick while it returns true                                              *)
(* ---------------------------------------------------------------------- *)

\* Ticking with run() calling tick() whatever it returned
TickingAlways(n) ==
    /\ status \in {"Running", "Halted"}
    /\ steps < MaxSteps
    /\ decode.ok
    /\ decode.op.n = n

\* run() calls tick(), and decode() gives an instruction with the opcode word n
Ticking(n) ==
    /\ status = "Running"
    /\ steps < MaxSteps
    /\ decode.ok
    /\ decode.op.n = n

\* the state a tick that decoded d leaves
Done(d, st, flt, regs2, mem2, stk2, ip2, out2, in2) ==
    /\ status' = st
    /\ fault' = flt
    /\ registers' = regs2
    /\ memory' = mem2
    /\ stack' = stk2
    /\ ip' = ip2
    /\ stdout' = out2
    /\ stdin' = in2
    /\ op' = d.op
    /\ steps' = steps + 1
    /\ image' = image

\* the tick panics with one of kinds, having changed nothing but ip
Panic(d, kinds) ==
    \E k \in kinds :
        Done(d, "Faulted", k, registers, memory, stack, d.ip, stdout, stdin)

\* the tick returns true, having changed the registers to regs2
Continue(d, regs2) ==
    Done(d, "Running", "None", regs2, memory, stack, d.ip, stdout, stdin)

\* the tick returns false after println!(msg)
Stop(d, msg) ==
    Done(d, "Halted", "None", registers, memory, stack, d.ip, Append(stdout, msg), stdin)

\* self.set_register(reg, val) as the last statement of an arm
WriteReg(d, reg, val) ==
    IF RegOk(reg) THEN Continue(d, set_register(reg, val))
    ELSE Panic(d, RegPanics(reg))

\* self.ip = addr as the last statement of an arm
Goto(d, addr) ==
    Done(d, "Running", "None", registers, memory, stack, addr, stdout, stdin)

\* a read of memory by decode is out of bounds
TickFetchPanic ==
    /\ status = "Running"
    /\ steps < MaxSteps
    /\ ~decode.ok
    /\ Panic(decode, {"Bounds"})

TickHalt ==
    /\ Ticking(0)
    /\ Stop(decode, <<"halt", 0>>)

TickSet ==
    /\ Ticking(1)
    /\ LET d == decode  o == d.op IN
       IF ValueFault(o.b) /= "None" THEN Panic(d, {ValueFault(o.b)})
       ELSE WriteReg(d, o.a, value(o.b))

\* TickPush putting the value under the stack instead of on top of it
TickPushUnder ==
    /\ Ticking(2)
    /\ LET d == decode  o == d.op IN
       IF ValueFault(o.a) /= "None" THEN Panic(d, {ValueFault(o.a)})
       ELSE Done(d, "Running", "None", registers, memory,
                 <<value(o.a)>> \o stack, d.ip, stdout, stdin)

TickPush ==
    /\ Ticking(2)
    /\ LET d == decode  o == d.op IN
       IF ValueFault(o.a) /= "None" THEN Panic(d, {ValueFault(o.a)})
       ELSE Done(d, "Running", "None", registers, memory,
                 Append(stack, value(o.a)), d.ip, stdout, stdin)

\* TickPop with an empty stack taken as Ret takes it: a message and false
TickPopHalts ==
    /\ Ticking(3)
    /\ LET d == decode  o == d.op IN
       IF stack = << >> THEN Stop(d, <<"emptyret", 0>>)
       ELSE LET top == stack[Len(stack)]
                rest == SubSeq(stack, 1, Len(stack) - 1)
            IN  IF RegOk(o.a)
                THEN Done(d, "Running", "None", set_register(o.a, top), memory,
                          rest, d.ip, stdout, stdin)
                ELSE \E k \in RegPanics(o.a) :
                        Done(d, "Faulted", k, registers, memory, rest, d.ip,
                             stdout, stdin)

TickPop ==
    /\ Ticking(3)
    /\ LET d == decode  o == d.op IN
       IF stack = << >> THEN Panic(d, {"StackUnderflow"})
       ELSE LET top == stack[Len(stack)]
                rest == SubSeq(stack, 1, Len(stack) - 1)
            IN  IF RegOk(o.a)
                THEN Done(d, "Running", "None", set_register(o.a, top), memory,
                          rest, d.ip, stdout, stdin)
                ELSE \E k \in RegPanics(o.a) :
                        Done(d, "Faulted", k, registers, memory, rest, d.ip,
                             stdout, stdin)

TickEq ==
    /\ Ticking(4)
    /\ LET d == decode  o == d.op IN
       IF ValueFault2(o.b, o.c) /= "None" THEN Panic(d, {ValueFault2(o.b, o.c)})
       ELSE WriteReg(d, o.a, IF value(o.b) = value(o.c) THEN 1 ELSE 0)

TickGt ==
    /\ Ticking(5)
    /\ LET d == decode  o == d.op IN
       IF ValueFault2(o.b, o.c) /= "None" THEN Panic(d, {ValueFault2(o.b, o.c)})
       ELSE WriteReg(d, o.a, IF value(o.b) > value(o.c) THEN 1 ELSE 0)

TickJmp ==
    /\ Ticking(6)
    /\ LET d == decode  o == d.op IN
       IF ValueFault(o.a) /= "None" THEN Panic(d, {ValueFault(o.a)})
       ELSE Goto(d, value(o.a))

\* TickJt resolving its target before it tests its condition
TickJtEager ==
    /\ Ticking(7)
    /\ LET d == decode  o == d.op IN
       IF ValueFault2(o.a, o.b) /= "None" THEN Panic(d, {ValueFault2(o.a, o.b)})
       ELSE IF value(o.a) /= 0 THEN Goto(d, value(o.b))
       ELSE Continue(d, registers)

TickJt ==
    /\ Ticking(7)
    /\ LET d == decode  o == d.op IN
       IF ValueFault(o.a) /= "None" THEN Panic(d, {ValueFault(o.a)})
       ELSE IF value(o.a) /= 0
            THEN IF ValueFault(o.b) /= "None" THEN Panic(d, {ValueFault(o.b)})
                 ELSE Goto(d, value(o.b))
            ELSE Continue(d, registers)

TickJf ==
    /\ Ticking(8)
    /\ LET d == decode  o == d.op IN
       IF ValueFault(o.a) /= "None" THEN Panic(d, {ValueFault(o.a)})
       ELSE IF value(o.a) = 0
            THEN IF ValueFault(o.b) /= "None" THEN Panic(d, {ValueFault(o.b)})
                 ELSE Goto(d, value(o.b))
            ELSE Continue(d, registers)

TickAdd ==
    /\ Ticking(9)
    /\ LET d == decode  o == d.op IN
       IF ValueFault2(o.b, o.c) /= "None" THEN Panic(d, {ValueFault2(o.b, o.c)})
       ELSE WriteReg(d, o.a, add(value(o.b), value(o.c)))

TickMult ==
    /\ Ticking(10)
    /\ LET d == decode  o == d.op IN
       IF ValueFault2(o.b, o.c) /= "None" THEN Panic(d, {ValueFault2(o.b, o.c)})
       ELSE WriteReg(d, o.a, mult(value(o.b), value(o.c)))

\* TickMod with a remainder by zero giving the dividend instead of a panic
TickModZero ==
    /\ Ticking(11)
    /\ LET d == decode  o == d.op IN
       IF ValueFault2(o.b, o.c) /= "None" THEN Panic(d, {ValueFault2(o.b, o.c)})
       ELSE IF value(o.c) = 0 THEN WriteReg(d, o.a, value(o.b))
       ELSE WriteReg(d, o.a, value(o.b) % value(o.c))

TickMod ==
    /\ Ticking(11)
    /\ LET d == decode  o == d.op IN
       IF ValueFault2(o.b, o.c) /= "None" THEN Panic(d, {ValueFault2(o.b, o.c)})
       ELSE IF value(o.c) = 0 THEN Panic(d, {"DivideByZero"})
       ELSE WriteReg(d, o.a, value(o.b) % value(o.c))

TickAnd ==
    /\ Ticking(12)
    /\ LET d == decode  o == d.op IN
       IF ValueFault2(o.b, o.c) /= "None" THEN Panic(d, {ValueFault2(o.b, o.c)})
       ELSE WriteReg(d, o.a, BitAnd(value(o.b), value(o.c)))

TickOr ==
    /\ Ticking(13)
    /\ LET d == decode  o == d.op IN
       IF ValueFault2(o.b, o.c) /= "None" THEN Panic(d, {ValueFault2(o.b, o.c)})
       ELSE WriteReg(d, o.a, BitOr(value(o.b), value(o.c)))

TickNot ==
    /\ Ticking(14)
    /\ LET d == decode  o == d.op IN
       IF ValueFault(o.b) /= "None" THEN Panic(d, {ValueFault(o.b)})
       ELSE WriteReg(d, o.a, not15(value(o.b)))

TickRmem ==
    /\ Ticking(15)
    /\ LET d == decode  o == d.op IN
       IF ValueFault(o.b) /= "None" THEN Panic(d, {ValueFault(o.b)})
       ELSE IF value(o.b) >= MemSize THEN Panic(d, {"Bounds"})
       ELSE WriteReg(d, o.a, Mem(value(o.b)))

\* TickWmem with its operands exchanged: memory[value(b)] = value(a)
TickWmemSwapped ==
    /\ Ticking(16)
    /\ LET d == decode  o == d.op IN
       IF ValueFault2(o.b, o.a) /= "None" THEN Panic(d, {ValueFault2(o.b, o.a)})
       ELSE IF value(o.b) >= MemSize THEN Panic(d, {"Bounds"})
       ELSE Done(d, "Running", "None", registers,
                 MemWrite(memory, value(o.b), value(o.a)), stack, d.ip,
                 stdout, stdin)

TickWmem ==
    /\ Ticking(16)
    /\ LET d == decode  o == d.op IN
       IF ValueFault2(o.b, o.a) /= "None" THEN Panic(d, {ValueFault2(o.b, o.a)})
       ELSE IF value(o.a) >= MemSize THEN Panic(d, {"Bounds"})
       ELSE Done(d, "Running", "None", registers,
                 MemWrite(memory, value(o.a), value(o.b)), stack, d.ip,
                 stdout, stdin)

\* TickCall pushing the address of its argument word instead of the ip after it
TickCallPushesArg ==
    /\ Ticking(17)
    /\ LET d == decode  o == d.op
           pushed == Append(stack, o.p + 1)
       IN  IF ValueFault(o.a) /= "None"
           THEN Done(d, "Faulted", ValueFault(o.a), registers, memory, pushed,
                     d.ip, stdout, stdin)
           ELSE Done(d, "Running", "None", registers, memory, pushed,
                     value(o.a), stdout, stdin)

TickCall ==
    /\ Ticking(17)
    /\ LET d == decode  o == d.op
           pushed == Append(stack, d.ip)
       IN  IF ValueFault(o.a) /= "None"
           THEN Done(d, "Faulted", ValueFault(o.a), registers, memory, pushed,
                     d.ip, stdout, stdin)
           ELSE Done(d, "Running", "None", registers, memory, pushed,
                     value(o.a), stdout, stdin)

\* TickRet reading the top of the stack (last()) without removing it
TickRetKeeps ==
    /\ Ticking(18)
    /\ LET d == decode IN
       IF stack = << >> THEN Stop(d, <<"emptyret", 0>>)
       ELSE Done(d, "Running", "None", registers, memory,
                 stack, stack[Len(stack)], stdout, stdin)

\* TickRet with stack.pop().expect(..) as in Pop: a panic on an empty stack
TickRetPanics ==
    /\ Ticking(18)
    /\ LET d == decode IN
       IF stack = << >> THEN Panic(d, {"StackUnderflow"})
       ELSE Done(d, "Running", "None", registers, memory,
                 SubSeq(stack, 1, Len(stack) - 1), stack[Len(stack)],
                 stdout, stdin)

TickRet ==
    /\ Ticking(18)
    /\ LET d == decode IN
       IF stack = << >> THEN Stop(d, <<"emptyret", 0>>)
       ELSE Done(d, "Running", "None", registers, memory,
                 SubSeq(stack, 1, Len(stack) - 1), stack[Len(stack)],
                 stdout, stdin)

\* TickOut without the cast to u8 (self.value(a) printed as it is)
TickOutWide ==
    /\ Ticking(19)
    /\ LET d == decode  o == d.op IN
       IF ValueFault(o.a) /= "None" THEN Panic(d, {ValueFault(o.a)})
       ELSE Done(d, "Running", "None", registers, memory, stack, d.ip,
                 Append(stdout, <<"char", value(o.a)>>), stdin)

TickOut ==
    /\ Ticking(19)
    /\ LET d == decode  o == d.op IN
       IF ValueFault(o.a) /= "None" THEN Panic(d, {ValueFault(o.a)})
       ELSE Done(d, "Running", "None", registers, memory, stack, d.ip,
                 Append(stdout, <<"char", value(o.a) % 256>>), stdin)

\* TickIn leaving the byte it read in standard input
TickInPeeks ==
    /\ Ticking(20)
    /\ LET d == decode  o == d.op IN
       IF stdin = << >> THEN Panic(d, {"EOF"})
       ELSE IF RegOk(o.a)
            THEN Done(d, "Running", "None", set_register(o.a, Head(stdin)),
                      memory, stack, d.ip, stdout, stdin)
            ELSE \E k \in RegPanics(o.a) :
                    Done(d, "Faulted", k, registers, memory, stack, d.ip,
                         stdout, stdin)

TickIn ==
    /\ Ticking(20)
    /\ LET d == decode  o == d.op IN
       IF stdin = << >> THEN Panic(d, {"EOF"})
       ELSE IF RegOk(o.a)
            THEN Done(d, "Running", "None", set_register(o.a, Head(stdin)),
                      memory, stack, d.ip, stdout, Tail(stdin))
            ELSE \E k \in RegPanics(o.a) :
                    Done(d, "Faulted", k, registers, memory, stack, d.ip,
                         stdout, Tail(stdin))

TickNoop ==
    /\ Ticking(21)
    /\ Continue(decode, registers)

TickInvalid ==
    /\ status = "Running"
    /\ steps < MaxSteps
    /\ decode.ok
    /\ decode.op.n \notin 0 .. 21
    /\ Stop(decode, <<"invalid", decode.op.n>>)

\* tick(): the arm of the decoded instruction
tick ==
    \/ TickFetchPanic
    \/ TickHalt \/ TickSet \/ TickPush \/ TickPop \/ TickEq \/ TickGt
    \/ TickJmp \/ TickJt \/ TickJf \/ TickAdd \/ TickMult \/ TickMod
    \/ TickAnd \/ TickOr \/ TickNot \/ TickRmem \/ TickWmem \/ TickCall
    \/ TickRet \/ TickOut \/ TickIn \/ TickNoop \/ TickInvalid

Next == Load \/ LoadErr \/ tick

Spec == Init /\ [][Next]_vars

(* ---------------------------------------------------------------------- *)
(* What the arms of tick resolve                                           *)
(* ---------------------------------------------------------------------- *)

\* the raw operands the arm of the decoded instruction o passes to value(), in
\* the state before the tick: a later one only when the earlier ones returned
Resolved(o) ==
    CASE o.tag \in {"Set", "Not", "Rmem"} -> {o.b}
      [] o.tag \in {"Push", "Jmp", "Call", "Out"} -> {o.a}
      [] o.tag \in {"Eq", "Gt", "Add", "Mult", "Mod", "And", "Or"} ->
            IF ValueFault(o.b) /= "None" THEN {o.b} ELSE {o.b, o.c}
      [] o.tag = "Wmem" ->
            IF ValueFault(o.b) /= "None" THEN {o.b} ELSE {o.b, o.a}
      [] o.tag = "Jt" ->
            IF ValueFault(o.a) /= "None" THEN {o.a}
            ELSE IF value(o.a) /= 0 THEN {o.a, o.b} ELSE {o.a}
      [] o.tag = "Jf" ->
            IF ValueFault(o.a) /= "None" THEN {o.a}
            ELSE IF value(o.a) = 0 THEN {o.a, o.b} ELSE {o.a}
      [] OTHER -> {}

\* this step is a call of tick()
TickStep == status = "Running" /\ steps' = steps + 1

\* the last element of a non-empty sequence
Last(q) == q[Len(q)]

\* the characters Out printed, in order
Chars(out) == SelectSeq(out, LAMBDA e : e[1] = "char")

(* ---------------------------------------------------------------------- *)
(* C1                                                                      *)
(* ---------------------------------------------------------------------- *)

\* the opcode word at ip is Halt, Ret with an empty stack, or no opcode
C1_StopCause ==
    /\ ip < MemSize
    /\ \/ Mem(ip) = 0
       \/ Mem(ip) = 18 /\ stack = << >>
       \/ Mem(ip) \notin 0 .. 21

\* the message of each of the three ways to stop
C1_Message ==
    IF Mem(ip) = 0 THEN <<"halt", 0>>
    ELSE IF Mem(ip) = 18 THEN <<"emptyret", 0>>
    ELSE <<"invalid", Mem(ip)>>

C2_HaltedTerminal ==
    [][status = "Halted" =>
        UNCHANGED <<status, ip, registers, memory, stack, stdout, stdin, op, steps,
                    image>>
    ]_vars

\* the machine is Halted with ticks left and an instruction other than Halt at ip
C2_Witness ==
    /\ status = "Halted"
    /\ steps < MaxSteps
    /\ ip < MemSize
    /\ Mem(ip) \in 1 .. 21

(* ---------------------------------------------------------------------- *)
(* C3                                                                      *)
(* ---------------------------------------------------------------------- *)

\* C3: in every reachable state, every operand the next tick resolves (a literal
\* or the content of a register) resolves to a value in 0-32767.
C3_ResolvedInRange ==
    (status = "Running" /\ steps < MaxSteps /\ decode.ok) =>
        \A x \in Resolved(decode.op) :
            x <= 32775 => value(x) \in 0 .. 32767

(* ---------------------------------------------------------------------- *)
(* C4                                                                      *)
(* ---------------------------------------------------------------------- *)

\* the argument count of the opcode word n
C4_ArgCount(n) ==
    IF n \in {2, 3, 6, 17, 19, 20} THEN 1
    ELSE IF n \in {1, 7, 8, 14, 15, 16} THEN 2
    ELSE IF n \in {4, 5, 9, 10, 11, 12, 13} THEN 3
    ELSE 0

\* C4: every decode that starts with ip = p, an address of memory, leaves
\* ip = p + 1 + k, k the argument count of the opcode word at p, with the
\* arguments a, b, c the words at p + 1, p + 2, p + 3.
C4_DecodeAdvances ==
    (status = "Running" /\ steps < MaxSteps /\ ip < MemSize) =>
        LET k == C4_ArgCount(Mem(ip)) IN
        /\ decode.ok
        /\ decode.ip = ip + 1 + k
        /\ k >= 1 => decode.op.a = Mem(ip + 1)
        /\ k >= 2 => decode.op.b = Mem(ip + 2)
        /\ k >= 3 => decode.op.c = Mem(ip + 3)

(* ---------------------------------------------------------------------- *)
(* C5                                                                      *)
(* ---------------------------------------------------------------------- *)

\* the tick about to be made resolves an operand whose raw value is above 32775
C5_ResolvesInvalid ==
    /\ decode.ok
    /\ \E x \in Resolved(decode.op) : x > 32775

\* C5 as stated: a tick that resolves a raw operand above 32775 ends in the
\* invalid-argument panic, and has written no register, memory cell or stack
\* entry.
C5_InvalidArgumentWritesNothing ==
    [][(TickStep /\ C5_ResolvesInvalid) =>
        /\ status' = "Faulted"
        /\ fault' = "InvalidArgument"
        /\ registers' = registers
        /\ memory' = memory
        /\ stack' = stack
    ]_vars

\* C5 as amended: a tick that resolves a raw operand above 32775 ends in the
\* invalid-argument panic, and has written no register and no memory cell; it
\* has written no stack entry either, except that Call has pushed its return
\* address (the ip after the Call) before it resolved its target.
C5_InvalidArgumentAmended ==
    [][(TickStep /\ C5_ResolvesInvalid) =>
        /\ status' = "Faulted"
        /\ fault' = "InvalidArgument"
        /\ registers' = registers
        /\ memory' = memory
        /\ stack' = IF Mem(ip) = 17 THEN Append(stack, ip + 2) ELSE stack
    ]_vars

\* a Call panicked on its target, with its return address pushed
C5_Witness ==
    /\ status = "Faulted"
    /\ fault = "InvalidArgument"
    /\ op.tag = "Call"
    /\ op.a > 32775
    /\ stack /= << >>
    /\ Last(stack) = op.p + 2

(* ---------------------------------------------------------------------- *)
(* C6                                                                      *)
(* ---------------------------------------------------------------------- *)

C7_RegisterWriters == {1, 3, 4, 5, 9, 10, 11, 12, 13, 14, 15, 20}

\* C7: a register-writing instruction whose raw destination is outside
\* 32768-32775 panics with no register written; with a destination inside, no
\* register other than number (raw - 32768) changes, whatever that register
\* holds, and a Set, a Pop or an In that returns puts its value there (the
\* resolved b, the top of the stack, the next input byte).
C7_RegisterDestination ==
    [][(TickStep /\ decode.ok /\ Mem(ip) \in C7_RegisterWriters) =>
        LET a == Mem(ip + 1) IN
        IF a < 32768 \/ a > 32775
        THEN status' = "Faulted" /\ registers' = registers
        ELSE /\ \A r \in 0 .. 7 : r /= a - 32768 => registers'[r] = registers[r]
             /\ status' = "Faulted" => registers' = registers
             /\ (Mem(ip) = 1 /\ status' = "Running") =>
                    registers'[a - 32768] = value(Mem(ip + 2))
             /\ (Mem(ip) = 3 /\ status' = "Running") =>
                    registers'[a - 32768] = Last(stack)
             /\ (Mem(ip) = 20 /\ status' = "Running") =>
                    registers'[a - 32768] = Head(stdin)
    ]_vars

\* Rmem r0,5 ; Set r0,r7: the Set found 32775, the name of r7, in its
\* destination r0 and wrote r0 itself
C7_WitnessRaw ==
    /\ status = "Running"
    /\ op.tag = "Set"
    /\ op.a = 32768
    /\ op.b = 32775
    /\ steps = 2
    /\ Mem(0) = 15 /\ Mem(1) = 32768 /\ Mem(2) = 5
    /\ Mem(5) = 32775
    /\ registers[0] = 0
    /\ registers[7] = 0

\* a Pop with a destination below 32768 panicked after a Push, with no register
\* written
C7_Witness ==
    /\ status = "Faulted"
    /\ op.tag = "Pop"
    /\ op.a < 32768
    /\ fault \in {"Overflow", "Bounds"}
    /\ steps = 2

(* ---------------------------------------------------------------------- *)
(* C8                                                                      *)
(* ---------------------------------------------------------------------- *)

\* C8: a tick that stops the machine gracefully leaves the registers, memory
\* and the stack as they were, and ip one past the opcode word.
C8_GracefulStopFrame ==
    [][(TickStep /\ status' = "Halted") =>
        /\ registers' = registers
        /\ memory' = memory
        /\ stack' = stack
        /\ ip' = ip + 1
    ]_vars

\* a number that is no opcode stopped the machine, with a value on the stack
C8_Witness ==
    /\ status = "Halted"
    /\ op.tag = "Invalid"
    /\ stack /= << >>
    /\ ip = op.p + 1

(* ---------------------------------------------------------------------- *)
(* C9                                                                      *)
(* ---------------------------------------------------------------------- *)

\* memory after AddProgram is loaded
C9_AddMemory == LoadLoop(<< >>, ToBytes(AddProgram), 0)

\* C9: an Add (a Mult) whose sources resolve to b, c in 0-32767 and whose
\* destination is a register writes (b + c) mod 32768 ((b * c) mod 32768) there,
\* the same with the sources exchanged, also when the destination is a source;
\* and AddProgram prints the character 3.
C9_AddMult ==
    [][/\ (TickStep /\ decode.ok /\ Mem(ip) \in {9, 10}) =>
            LET a == Mem(ip + 1)
                b == Mem(ip + 2)
                c == Mem(ip + 3)
            IN  (/\ a \in 32768 .. 32775
                 /\ b <= 32775 /\ c <= 32775
                 /\ value(b) <= 32767 /\ value(c) <= 32767) =>
                    /\ status' = "Running"
                    /\ Mem(ip) = 9 =>
                          /\ registers'[a - 32768] = (value(b) + value(c)) % 32768
                          /\ add(value(c), value(b)) = registers'[a - 32768]
                    /\ Mem(ip) = 10 =>
                          /\ registers'[a - 32768] = (value(b) * value(c)) % 32768
                          /\ mult(value(c), value(b)) = registers'[a - 32768]
       /\ (memory' = C9_AddMemory /\ status' = "Halted") =>
            Chars(stdout') = << <<"char", 3>> >>
    ]_vars

\* AddProgram ran to its end: r0 = (4 + 32767) mod 32768 and the character 3
C9_Witness ==
    /\ memory = C9_AddMemory
    /\ status = "Halted"
    /\ registers[0] = 3
    /\ Chars(stdout) = << <<"char", 3>> >>

(* ---------------------------------------------------------------------- *)
(* C10                                                                     *)
(* ---------------------------------------------------------------------- *)

\* C10: a Call at p that returns pushes p + 2 and sets ip to its resolved
\* target; a Ret that is the next tick after a Call at p sets ip to p + 2 and
\* leaves the stack that the Call found.
C10_CallRet ==
    [][TickStep =>
        /\ (decode.ok /\ Mem(ip) = 17 /\ status' = "Running") =>
              /\ stack' = Append(stack, ip + 2)
              /\ ip' = value(Mem(ip + 1))
        /\ (decode.ok /\ Mem(ip) = 18 /\ op.tag = "Call") =>
              /\ status' = "Running"
              /\ ip' = op.p + 2
              /\ Append(stack', op.p + 2) = stack
    ]_vars

\* Call 2 at address 0 and then a Ret at address 2: ip is back at 2, the stack
\* empty again
C10_Witness ==
    /\ status = "Running"
    /\ op.tag = "Ret"
    /\ op.p = 2
    /\ steps = 2
    /\ Mem(0) = 17
    /\ ip = 2
    /\ stack = << >>

(* ---------------------------------------------------------------------- *)
(* C11                                                                     *)
(* ---------------------------------------------------------------------- *)

\* a sequence without its last element
Front(q) == SubSeq(q, 1, Len(q) - 1)

\* C11: a Push that returns puts its resolved value on top of the stack, and a
\* Pop that returns writes the top of the stack to its register and removes it,
\* so values pushed come back in reverse order; from an empty stack, Push 1;
\* Push 2; Pop r0; Pop r1 leaves r0 = 2, r1 = 1 and the stack empty, and
\* Push v; Pop r leaves r = v and the stack empty.
C11_PushPopLifo ==
    [][TickStep =>
        /\ (decode.ok /\ Mem(ip) = 2 /\ status' = "Running") =>
              stack' = Append(stack, value(Mem(ip + 1)))
        /\ (decode.ok /\ Mem(ip) = 3 /\ status' = "Running") =>
              /\ stack /= << >>
              /\ registers'[Mem(ip + 1) - 32768] = Last(stack)
              /\ stack' = Front(stack)
        /\ (image = ToBytes(LifoProgram) /\ steps' = 4) =>
              /\ status' = "Running"
              /\ registers'[0] = 2
              /\ registers'[1] = 1
              /\ stack' = << >>
        /\ (steps = 1 /\ op.tag = "Push" /\ op.a <= 32767 /\ decode.ok
            /\ Mem(ip) = 3 /\ status' = "Running") =>
              /\ registers'[Mem(ip + 1) - 32768] = op.a
              /\ stack' = << >>
    ]_vars

\* Push 1; Push 2; Pop r0; Pop r1 has run
C11_Witness ==
    /\ image = ToBytes(LifoProgram)
    /\ steps = 4
    /\ op.tag = "Pop"
    /\ registers[0] = 2
    /\ registers[1] = 1
    /\ stack = << >>

(* ---------------------------------------------------------------------- *)
(* C12                                                                     *)
(* ---------------------------------------------------------------------- *)

\* C12: a Not that returns writes the complement of its resolved operand with
\* the top bit cleared: a value in 0-32767, equal to (65535 - v) mod 32768, and to
\* 32767 - v for a 15-bit v, whose Not is v again; Set r0,x; Not r1,r0;
\* Not r2,r1 leaves r2 = x.
C12_NotTwice ==
    [][TickStep =>
        /\ (decode.ok /\ Mem(ip) = 14 /\ status' = "Running") =>
              LET v == value(Mem(ip + 2))
                  r == registers'[Mem(ip + 1) - 32768]
              IN  /\ r \in 0 .. 32767
                  /\ r = (65535 - v) % 32768
                  /\ v <= 32767 => (r = 32767 - v /\ not15(r) = v)
        /\ \A x \in NotValues :
              (image = ToBytes(NotTwice(x)) /\ steps' = 3) =>
                  /\ status' = "Running"
                  /\ registers'[1] = 32767 - x
                  /\ registers'[2] = x
    ]_vars

\* Set r0,12345; Not r1,r0; Not r2,r1 has run
C12_Witness ==
    /\ image = ToBytes(NotTwice(12345))
    /\ steps = 3
    /\ op.tag = "Not"
    /\ registers[1] = 20422
    /\ registers[2] = 12345

(* ---------------------------------------------------------------------- *)
(* C13                                                                     *)
(* ---------------------------------------------------------------------- *)

\* C13: an Out that returns appends one character, the low 8 bits of its
\* resolved operand, to the output; an Out that panics and every other
\* instruction print no character; HiProgram prints H, i, newline in that order
\* and then the message of Halt, and nothing is printed once the machine is
\* Halted.
C13_OutHi ==
    [][/\ TickStep =>
            /\ (decode.ok /\ Mem(ip) = 19 /\ status' = "Running") =>
                  stdout' = Append(stdout, <<"char", value(Mem(ip + 1)) % 256>>)
            /\ (Mem(ip) /= 19 \/ status' /= "Running") =>
                  Chars(stdout') = Chars(stdout)
       /\ (image' = ToBytes(HiProgram) /\ status' = "Halted") =>
            stdout' = << <<"read", 14>>, <<"banner", 0>>, <<"char", 72>>,
                         <<"char", 105>>, <<"char", 10>>, <<"halt", 0>> >>
       /\ status = "Halted" => stdout' = stdout
    ]_vars

\* HiProgram has run to its Halt
C13_Witness ==
    /\ image = ToBytes(HiProgram)
    /\ status = "Halted"
    /\ op.tag = "Halt"
    /\ op.p = 6
    /\ Chars(stdout) = << <<"char", 72>>, <<"char", 105>>, <<"char", 10>> >>

(* ---------------------------------------------------------------------- *)
(* C14                                                                     *)
(* ---------------------------------------------------------------------- *)

\* In r0; In r7
C14_TwoIns == <<20, 32768, 20, 32775>>

\* C14: an In that finds a byte takes exactly the first byte of what is left of
\* standard input and, when it returns, has stored it (0-255) in its register;
\* no other instruction reads standard input; an In that finds standard input
\* at its end is the EOF panic, with no register written; In r0; In r7 on the
\* input 65, 255 leaves r0 = 65 and r7 = 255.
C14_InStream ==
    [][TickStep =>
        /\ (decode.ok /\ Mem(ip) = 20 /\ stdin /= << >>) =>
              /\ stdin' = Tail(stdin)
              /\ status' = "Running" =>
                    /\ registers'[Mem(ip + 1) - 32768] = Head(stdin)
                    /\ registers'[Mem(ip + 1) - 32768] \in 0 .. 255
        /\ (decode.ok /\ Mem(ip) = 20 /\ stdin = << >>) =>
              /\ status' = "Faulted"
              /\ fault' = "EOF"
              /\ registers' = registers
        /\ (~decode.ok \/ Mem(ip) /= 20) => stdin' = stdin
        /\ (image = ToBytes(C14_TwoIns) /\ steps' = 2 /\ status' = "Running") =>
              /\ registers'[0] = 65
              /\ registers'[7] = 255
              /\ stdin' = << >>
    ]_vars

\* In r0; In r7 has read both bytes of the input 65, 255
C14_Witness ==
    /\ image = ToBytes(C14_TwoIns)
    /\ steps = 2
    /\ status = "Running"
    /\ op.tag = "In"
    /\ registers[0] = 65
    /\ registers[7] = 255
    /\ stdin = << >>

\* an In found standard input at its end
C14_WitnessEof ==
    /\ status = "Faulted"
    /\ fault = "EOF"
    /\ op.tag = "In"
    /\ op.a \in 32768 .. 32775

(* ---------------------------------------------------------------------- *)
(* C15                                                                     *)
(* ---------------------------------------------------------------------- *)

\* C15: after the load of a file of n bytes b, whatever n is, the machine runs
\* (the load did not panic), n bytes are reported, memory[k] is
\* b[2k] + 256 * b[2k + 1] for every k < n div 2, and every other cell is 0.
C15_LoadEveryLength ==
    (status /= "New" /\ steps = 0) =>
        LET n == Len(image) IN
        /\ status = "Running"
        /\ stdout[1] = <<"read", n>>
        /\ \A k \in 0 .. (n \div 2) - 1 :
              Mem(k) = image[2 * k + 1] + 256 * image[2 * k + 2]
        /\ DOMAIN memory \subseteq 0 .. (n \div 2) - 1

(* ---------------------------------------------------------------------- *)
(* C16                                                                     *)
(* ---------------------------------------------------------------------- *)

\* C16: whenever the machine is Running, ip is an address of memory (0-32767),
\* and no read of an opcode or argument word is outside memory.
C16_IpInMemory ==
    /\ status = "Running" => ip \in 0 .. 32767
    /\ ~(status = "Faulted" /\ steps >= 1 /\ op.tag = "None")

(* ---------------------------------------------------------------------- *)
(* C17                                                                     *)
(* ---------------------------------------------------------------------- *)

\* C17: Jmp a sets ip to the resolved a; Jt a,b (Jf a,b) sets ip to the
\* resolved b when the resolved a is not 0 (is 0), and otherwise leaves ip right
\* after its three words without resolving b, so that an invalid b is a panic
\* only when the jump is taken; none of the three changes a register, a memory
\* cell or the stack.
C17_Jumps ==
    [][(TickStep /\ decode.ok /\ Mem(ip) \in {6, 7, 8}) =>
        LET n == Mem(ip)
            a == Mem(ip + 1)
            b == Mem(ip + 2)
        IN  /\ registers' = registers
            /\ memory' = memory
            /\ stack' = stack
            /\ (n = 6 /\ a <= 32775) =>
                  (status' = "Running" /\ ip' = value(a))
            /\ (n \in {7, 8} /\ a <= 32775) =>
                  IF (n = 7 /\ value(a) /= 0) \/ (n = 8 /\ value(a) = 0)
                  THEN IF b <= 32775
                       THEN status' = "Running" /\ ip' = value(b)
                       ELSE status' = "Faulted" /\ fault' = "InvalidArgument"
                  ELSE status' = "Running" /\ ip' = ip + 3
    ]_vars

\* a Jt whose condition was 0 went on past its invalid target
C17_Witness ==
    /\ status = "Running"
    /\ op.tag = "Jt"
    /\ op.b > 32775
    /\ ip = op.p + 3

\* a Jf whose condition was 0 jumped to the content of a register
C17_WitnessTaken ==
    /\ status = "Running"
    /\ op.tag = "Jf"
    /\ op.b = 32768
    /\ registers[0] = 32767
    /\ ip = 32767

(* ---------------------------------------------------------------------- *)
(* C18                                                                     *)
(* ---------------------------------------------------------------------- *)

\* C18: a Push or a Call that returns puts exactly one entry on top of the
\* stack; a Pop that returns, and a Ret on a non-empty stack, remove exactly the
\* top entry; every other tick that decodes an instruction, and a tick whose
\* decode panics, leave the stack as it is; Ret puts the entry it removes in
\* ip, whether a Call or a Push placed it.
C18_StackDiscipline ==
    [][TickStep =>
        IF ~decode.ok THEN stack' = stack
        ELSE LET n == Mem(ip) IN
             /\ (n \in {2, 17} /\ status' = "Running") =>
                   /\ Len(stack') = Len(stack) + 1
                   /\ Front(stack') = stack
             /\ (n = 3 /\ status' = "Running") =>
                   (stack /= << >> /\ stack' = Front(stack))
             /\ (n = 18 /\ stack /= << >>) =>
                   /\ status' = "Running"
                   /\ stack' = Front(stack)
                   /\ ip' = Last(stack)
             /\ n \notin {2, 3, 17, 18} => stack' = stack
    ]_vars

\* Push 32767; Ret: the Ret took the value the Push placed as its address
C18_Witness ==
    /\ status = "Running"
    /\ image = ToBytes(<<2, 32767, 18>>)
    /\ op.tag = "Ret"
    /\ steps = 2
    /\ ip = 32767
    /\ stack = << >>

(* ---------------------------------------------------------------------- *)
(* C19                                                                     *)
(* ---------------------------------------------------------------------- *)

\* the cell k of the memory m
C19_Cell(m, k) == IF k \in DOMAIN m THEN m[k] ELSE 0

\* Wmem 32767,21; Jmp 32767: the Noop written at 32767 is executed
C19_SelfModifying == <<16, 32767, 21, 6, 32767>>

\* C19: no tick other than a Wmem that returns changes a memory cell; a Wmem
\* a,b that returns changes the cell at the resolved a, and no other, to the
\* resolved b, and no register; an Rmem a,b that returns writes the cell at the
\* resolved b to register a, so that an Rmem of the address the Wmem before it
\* wrote reads the written value; and every tick decodes what memory holds now:
\* after Wmem 32767,21; Jmp 32767 the instruction decoded at 32767 is Noop.
C19_MemoryFrame ==
    [][TickStep =>
        IF ~decode.ok THEN memory' = memory
        ELSE LET n == Mem(ip)
                 a == Mem(ip + 1)
                 b == Mem(ip + 2)
             IN  /\ (n /= 16 \/ status' /= "Running") => memory' = memory
                 /\ (n = 16 /\ status' = "Running") =>
                       /\ registers' = registers
                       /\ value(a) \in 0 .. 32767
                       /\ \A k \in DOMAIN memory \cup DOMAIN memory' \cup {value(a)} :
                             C19_Cell(memory', k) =
                                IF k = value(a) THEN value(b) ELSE Mem(k)
                 /\ (n = 15 /\ status' = "Running") =>
                       registers'[a - 32768] = Mem(value(b))
                 /\ (n = 15 /\ status' = "Running" /\ op.tag = "Wmem"
                     /\ value(b) = value(op.a)) =>
                       registers'[a - 32768] = value(op.b)
                 /\ op'.n = n
                 /\ (image = ToBytes(C19_SelfModifying) /\ steps' = 3) =>
                       (status' = "Running" /\ op'.tag = "Noop" /\ op'.p = 32767)
    ]_vars

\* Wmem 32767,1; Rmem r0,32767: the Rmem read the 1 the Wmem wrote
C19_Witness ==
    /\ status = "Running"
    /\ image = ToBytes(<<16, 32767, 1, 15, 32768, 32767>>)
    /\ op.tag = "Rmem"
    /\ steps = 2
    /\ Mem(32767) = 1
    /\ registers[0] = 1

\* the Noop that Wmem wrote at 32767 has been executed
C19_WitnessSelfModifying ==
    /\ status = "Running"
    /\ image = ToBytes(C19_SelfModifying)
    /\ steps = 3
    /\ op.tag = "Noop"
    /\ op.p = 32767

(* ---------------------------------------------------------------------- *)
(* C20                                                                     *)
(* ---------------------------------------------------------------------- *)

\* C20: a Mod whose divisor resolves to 0 is a panic (neither Halted nor
\* Running) with no register written; a Mod with a valid destination whose
\* divisor resolves to d /= 0 returns and writes the remainder r of the
\* resolved dividend: 0 <= r < d and dividend = q * d + r.
C20_Mod ==
    [][(TickStep /\ decode.ok /\ Mem(ip) = 11
        /\ Mem(ip + 2) <= 32775 /\ Mem(ip + 3) <= 32775) =>
        LET a == Mem(ip + 1)
            x == value(Mem(ip + 2))
            d == value(Mem(ip + 3))
        IN  IF d = 0
            THEN /\ status' = "Faulted"
                 /\ fault' = "DivideByZero"
                 /\ registers' = registers
            ELSE a \in 32768 .. 32775 =>
                    LET r == registers'[a - 32768] IN
                    /\ status' = "Running"
                    /\ 0 <= r /\ r < d
                    /\ x = (x \div d) * d + r
    ]_vars

\* a Mod with a valid destination panicked on a divisor of 0
C20_Witness ==
    /\ status = "Faulted"
    /\ fault = "DivideByZero"
    /\ op.tag = "Mod"
    /\ op.a \in 32768 .. 32775

\* a Mod wrote 32767 mod 2 = 1
C20_WitnessRemainder ==
    /\ status = "Running"
    /\ op.tag = "Mod"
    /\ op.a = 32768
    /\ op.b = 32767
    /\ op.c = 2
    /\ registers[0] = 1

====
